---- MODULE Spec2Model ----
(***************************************************************************)
(* Model of scripts/extract_heart_disease.py: the text flattener, the      *)
(* keyword matcher builder, the record readers and the extraction driver.  *)
(*                                                                         *)
(* A Python str is a sequence of one-character strings.  A parsed JSON     *)
(* value is a pair <<tag, payload>>:                                       *)
(*   <<"null", <<>>>>  <<"str", chars>>  <<"num", n>>  <<"bool", b>>       *)
(*   <<"map", << <<key, value>>, ... >> >>   (insertion order)             *)
(*   <<"seq", << value, ... >> >>                                          *)
(***************************************************************************)
EXTENDS Integers, Sequences, FiniteSets, TLC

VARIABLES
    \* ---- flatten_strings(value, max_items)
    fl_pc, fl_value, fl_max, fl_out,
    \* ---- build_matcher(keywords), detect_matches(pattern, text, max_hits)
    mt_pc, kw_list, mt_pattern, mt_cleaned, mt_text, mt_max_hits, mt_hits,
    \* ---- main(): the command line and the file system it runs on
    args,            \* extensions, max_records, fields, max_flatten_items, dry_run
    fs,              \* is_file: os.path.isfile(--input); files: in traversal order
    \* ---- main(): the run
    pc,              \* "idle", "start", "files", "records", "exit"
    file_idx,        \* iter_files: the file yielded last (0 before the first)
    reader,          \* record_iter of the current file: kind, line, opened
    total_records, matched_records, scanned_files,
    out_f,           \* "None", "open", "closed"
    output,          \* the lines written to --output, in order
    raised,          \* what ended the scan: "none" or the exception
    exit_code,       \* the process's exit status (-1 while running)
    warnings,        \* "Warning: ..." lines printed
    \* ---- history of the run
    run,             \* 1: the dry run, 2: the normal run on the same input
    prev,            \* what run 1 ended with
    scanned,         \* the files counted in scanned_files, in order
    opened,          \* <<file, records processed so far>> at each open for reading
    visited,         \* <<file, source_line>> of each record flattened and matched
    closes           \* calls of out_f.close()

fl_vars == <<fl_pc, fl_value, fl_max, fl_out>>
mt_vars == <<mt_pc, kw_list, mt_pattern, mt_cleaned, mt_text, mt_max_hits, mt_hits>>
in_vars == <<args, fs>>
run_vars == <<pc, file_idx, reader, total_records, matched_records, scanned_files,
              out_f, output, raised, exit_code, warnings>>
hist_vars == <<run, prev, scanned, opened, visited, closes>>
vars == <<fl_vars, mt_vars, in_vars, run_vars, hist_vars>>

(***************************************************************************)
(* Characters                                                              *)
(***************************************************************************)
UpperLetters == <<"A","B","C","D","E","F","G","H","I","J","K","L","M",
                  "N","O","P","Q","R","S","T","U","V","W","X","Y","Z">>
LowerLetters == <<"a","b","c","d","e","f","g","h","i","j","k","l","m",
                  "n","o","p","q","r","s","t","u","v","w","x","y","z">>
Digits == {"0","1","2","3","4","5","6","7","8","9"}
\* one ideograph of the CJK Unified Ideographs range (U+5FC3)
CJKChars == {"U5FC3"}

Range(s) == {s[i] : i \in DOMAIN s}
UpperSet == Range(UpperLetters)
LowerSet == Range(LowerLetters)
IsUpper(c) == c \in UpperSet
IsLower(c) == c \in LowerSet
IsDigit(c) == c \in Digits
IsCJK(c) == c \in CJKChars
\* str.isalpha / a character of \w (Unicode letters, digits and "_")
IsAlpha(c) == IsUpper(c) \/ IsLower(c) \/ IsCJK(c)
IsWord(c) == IsAlpha(c) \/ IsDigit(c) \/ c = "_"
\* the class [A-Za-z0-9]
IsAsciiAlnum(c) == IsUpper(c) \/ IsLower(c) \/ IsDigit(c)
\* str.strip / str.split / \s
IsSpace(c) == c \in {" ", "\t"}

\* str.lower on one character; also the folding of re.IGNORECASE
LowerOf ==
    [c \in UpperSet |-> LowerLetters[CHOOSE i \in DOMAIN UpperLetters : UpperLetters[i] = c]]
LowerChar(c) == IF IsUpper(c) THEN LowerOf[c] ELSE c
LowerStr(s) == [i \in DOMAIN s |-> LowerChar(s[i])]

(***************************************************************************)
(* Strings                                                                 *)
(***************************************************************************)
RECURSIVE LStrip(_)
LStrip(s) == IF s = <<>> THEN s
             ELSE IF IsSpace(Head(s)) THEN LStrip(Tail(s)) ELSE s
RECURSIVE RStrip(_)
RStrip(s) == IF s = <<>> THEN s
             ELSE IF IsSpace(s[Len(s)]) THEN RStrip(SubSeq(s, 1, Len(s) - 1)) ELSE s
\* str.strip()
Strip(s) == RStrip(LStrip(s))

\* str.split(): the maximal runs of non-whitespace
RECURSIVE SplitFrom(_, _, _)
SplitFrom(s, cur, acc) ==
    IF s = <<>> THEN (IF cur = <<>> THEN acc ELSE Append(acc, cur))
    ELSE IF IsSpace(Head(s))
         THEN SplitFrom(Tail(s), <<>>, IF cur = <<>> THEN acc ELSE Append(acc, cur))
         ELSE SplitFrom(Tail(s), Append(cur, Head(s)), acc)
Split(s) == SplitFrom(s, <<>>, <<>>)

\* " ".join(parts)
RECURSIVE JoinSpace(_)
JoinSpace(parts) ==
    IF parts = <<>> THEN <<>>
    ELSE IF Len(parts) = 1 THEN parts[1]
    ELSE parts[1] \o <<" ">> \o JoinSpace(Tail(parts))

\* seq[:n] of Python, n of either sign
PyPrefix(s, n) ==
    IF n >= 0 THEN SubSeq(s, 1, IF n < Len(s) THEN n ELSE Len(s))
    ELSE SubSeq(s, 1, Len(s) + n)

\* str(v) of an int or a bool
RECURSIVE NatStr(_)
NatStr(n) ==
    LET d == <<"0","1","2","3","4","5","6","7","8","9">>[(n % 10) + 1]
    IN IF n < 10 THEN <<d>> ELSE Append(NatStr(n \div 10), d)
PyStr(v) ==
    IF v[1] = "bool"
    THEN (IF v[2] THEN <<"T","r","u","e">> ELSE <<"F","a","l","s","e">>)
    ELSE IF v[2] < 0 THEN <<"-">> \o NatStr(-v[2]) ELSE NatStr(v[2])

(***************************************************************************)
(* flatten_strings                                                         *)
(***************************************************************************)
RECURSIVE visit(_, _, _)
RECURSIVE visit_dict(_, _, _, _)
RECURSIVE visit_list(_, _, _, _)

\* a bug a reader could make: the value's fragments before the key's
visit_dict_value_first(items, k, out, max_items) ==
    IF k > Len(items) THEN out
    ELSE IF Len(out) >= max_items THEN out
    ELSE LET key == Strip(items[k][1])
             o1 == visit(items[k][2], out, max_items)
             o2 == IF key # <<>> THEN Append(o1, key) ELSE o1
         IN visit_dict(items, k + 1, o2, max_items)

\* for k, vv in v.items(): from the k-th item on
visit_dict(items, k, out, max_items) ==
    IF k > Len(items) THEN out
    ELSE IF Len(out) >= max_items THEN out
    ELSE LET key == Strip(items[k][1])
             o1 == IF key # <<>> THEN Append(out, key) ELSE out
         IN visit_dict(items, k + 1, visit(items[k][2], o1, max_items), max_items)

\* for vv in v: from the k-th element on
visit_list(items, k, out, max_items) ==
    IF k > Len(items) THEN out
    ELSE IF Len(out) >= max_items THEN out
    ELSE visit_list(items, k + 1, visit(items[k], out, max_items), max_items)

\* visit(v), with the enclosing `out` passed in and returned
visit(v, out, max_items) ==
    IF Len(out) >= max_items THEN out
    ELSE CASE v[1] = "null" -> out
           [] v[1] = "str" -> (LET s == Strip(v[2])
                               IN IF s # <<>> THEN Append(out, s) ELSE out)
           [] v[1] \in {"num", "bool"} -> Append(out, PyStr(v))
           [] v[1] = "map" -> visit_dict(v[2], 1, out, max_items)
           [] v[1] = "seq" -> visit_list(v[2], 1, out, max_items)

flatten_strings(value, max_items) ==
    PyPrefix(visit(value, <<>>, max_items), max_items)

(***************************************************************************)
(* build_matcher: a compiled pattern is the sequence of its alternatives,  *)
(* each a sequence of atoms:                                               *)
(*   <<"lit", c>>   re.escape of c, compared under re.IGNORECASE           *)
(*   <<"wb", "">>   \b          <<"ws", "">>   \s+                         *)
(*   <<"nla", "">>  the negative lookahead of ".*" (the empty pattern)     *)
(***************************************************************************)
Lit(s) == [i \in DOMAIN s |-> <<"lit", s[i]>>]
WB == <<"wb", "">>
WS == <<"ws", "">>
NLA == <<"nla", "">>

\* cleaned: the stripped keywords that are not empty, in order
RECURSIVE CleanKeywords(_)
CleanKeywords(keywords) ==
    IF keywords = <<>> THEN <<>>
    ELSE LET kw == Strip(Head(keywords))
         IN IF kw # <<>> THEN <<kw>> \o CleanKeywords(Tail(keywords))
            ELSE CleanKeywords(Tail(keywords))

\* r"\s+".join(tokens)
RECURSIVE JoinWS(_)
JoinWS(tokens) ==
    IF Len(tokens) = 1 THEN Lit(tokens[1])
    ELSE Lit(tokens[1]) \o <<WS>> \o JoinWS(Tail(tokens))

has_cjk(kw) == \E i \in DOMAIN kw : IsCJK(kw[i])
simple_wordish(kw) == kw # <<>> /\ \A i \in DOMAIN kw : IsAsciiAlnum(kw[i])
is_short(kw) == Len(kw) <= 3
\* str.isupper(): a cased character, and none of them lowercase
is_all_caps(kw) ==
    /\ \E i \in DOMAIN kw : IsUpper(kw[i])
    /\ \A i \in DOMAIN kw : ~IsLower(kw[i])
    /\ \E i \in DOMAIN kw : IsAlpha(kw[i])

\* a bug a reader could make: the acronym class escaped without its anchors
keyword_part_unanchored(kw) ==
    IF has_cjk(kw) THEN Lit(kw)
    ELSE LET kw_stripped == Strip(kw)
             tokens == Split(kw_stripped)
         IN IF Len(tokens) > 1 THEN <<WB>> \o JoinWS(tokens) \o <<WB>>
            ELSE Lit(kw_stripped)

\* the sub-pattern appended to `parts` for one cleaned keyword
keyword_part(kw) ==
    IF has_cjk(kw) THEN Lit(kw)
    ELSE LET kw_stripped == Strip(kw)
             tokens == Split(kw_stripped)
         IN IF simple_wordish(kw_stripped) /\ (is_short(kw_stripped) \/ is_all_caps(kw_stripped))
            THEN <<WB>> \o Lit(kw_stripped) \o <<WB>>
            ELSE IF Len(tokens) > 1 THEN <<WB>> \o JoinWS(tokens) \o <<WB>>
            ELSE Lit(kw_stripped)

\* (pattern, cleaned)
build_matcher(keywords) ==
    LET cleaned == CleanKeywords(keywords)
    IN IF cleaned = <<>>
       THEN [pattern |-> << <<NLA>> >>, cleaned |-> <<>>]
       ELSE [pattern |-> [i \in DOMAIN cleaned |-> keyword_part(cleaned[i])],
             cleaned |-> cleaned]

(***************************************************************************)
(* The regular-expression engine on these patterns.  Positions are 1-based;*)
(* a match attempt returns the position after the match, or 0.             *)
(***************************************************************************)
\* \b at position i: exactly one of text[i-1], text[i] is a word character
AtWordBoundary(text, i) ==
    LET before == i > 1 /\ i - 1 <= Len(text) /\ IsWord(text[i - 1])
        after == i >= 1 /\ i <= Len(text) /\ IsWord(text[i])
    IN before # after

RECURSIVE SpaceRun(_, _)
SpaceRun(text, i) ==
    IF i <= Len(text) /\ IsSpace(text[i]) THEN 1 + SpaceRun(text, i + 1) ELSE 0

RECURSIVE MatchAtoms(_, _, _, _)
RECURSIVE MatchSpaces(_, _, _, _, _)
\* \s+ is greedy: the longest run first, then shorter ones on backtracking
MatchSpaces(atoms, k, text, i, n) ==
    IF n < 1 THEN 0
    ELSE LET e == MatchAtoms(atoms, k + 1, text, i + n)
         IN IF e # 0 THEN e ELSE MatchSpaces(atoms, k, text, i, n - 1)
MatchAtoms(atoms, k, text, i) ==
    IF k > Len(atoms) THEN i
    ELSE CASE atoms[k][1] = "lit" ->
                 (IF i <= Len(text) /\ LowerChar(text[i]) = LowerChar(atoms[k][2])
                  THEN MatchAtoms(atoms, k + 1, text, i + 1) ELSE 0)
           [] atoms[k][1] = "wb" ->
                 (IF AtWordBoundary(text, i)
                  THEN MatchAtoms(atoms, k + 1, text, i) ELSE 0)
           [] atoms[k][1] = "ws" -> MatchSpaces(atoms, k, text, i, SpaceRun(text, i))
           \* ".*" matches at every position, so its negative lookahead fails
           [] atoms[k][1] = "nla" -> 0

\* the alternation at position i: the first alternative that matches
RECURSIVE MatchAlt(_, _, _, _)
MatchAlt(pattern, a, text, i) ==
    IF a > Len(pattern) THEN 0
    ELSE LET e == MatchAtoms(pattern[a], 1, text, i)
         IN IF e # 0 THEN e ELSE MatchAlt(pattern, a + 1, text, i)

(***************************************************************************)
(* detect_matches                                                          *)
(***************************************************************************)
RECURSIVE finditer_loop(_, _, _, _, _)

\* for m in pattern.finditer(text): hits.append(m.group(0)); break at the cap.
\* finditer scans from pos; a match ends the scan there and resumes at its end.
finditer_loop(pattern, text, pos, hits, max_hits) ==
    IF pos > Len(text) + 1 THEN hits
    ELSE LET e == MatchAlt(pattern, 1, text, pos)
         IN IF e = 0 THEN finditer_loop(pattern, text, pos + 1, hits, max_hits)
            ELSE LET hits1 == Append(hits, SubSeq(text, pos, e - 1))
                 IN IF Len(hits1) >= max_hits THEN hits1
                    ELSE finditer_loop(pattern, text, IF e = pos THEN pos + 1 ELSE e,
                                       hits1, max_hits)

detect_matches(pattern, text, max_hits) == finditer_loop(pattern, text, 1, <<>>, max_hits)

(***************************************************************************)
(* Field filter and text extraction                                        *)
(***************************************************************************)
IsDict(record) == record[1] = "map"
HasField(record, field) == \E i \in DOMAIN record[2] : record[2][i][1] = field
FieldValue(record, field) ==
    record[2][CHOOSE i \in DOMAIN record[2] : record[2][i][1] = field][2]

\* include_fields is <<>> for None
filter_record_fields(record, include_fields, exclude_fields) ==
    IF include_fields # <<>>
    THEN LET present(field) == HasField(record, field)
             kept == SelectSeq(include_fields, present)
         IN <<"map", [i \in DOMAIN kept |-> <<kept[i], FieldValue(record, kept[i])>>]>>
    ELSE IF exclude_fields # <<>>
    THEN LET keep(item) == \A j \in DOMAIN exclude_fields : item[1] # exclude_fields[j]
         IN <<"map", SelectSeq(record[2], keep)>>
    ELSE record

extract_text_from_record(record, max_items, include_fields, exclude_fields) ==
    IF ~IsDict(record) THEN JoinSpace(flatten_strings(record, max_items))
    ELSE JoinSpace(flatten_strings(
             filter_record_fields(record, include_fields, exclude_fields), max_items))

filter_record_for_output(record, include_fields, exclude_fields) ==
    IF ~IsDict(record) THEN record
    ELSE filter_record_fields(record, include_fields, exclude_fields)

(***************************************************************************)
(* Record readers.  A file is [ext, readable, lines]: the extension        *)
(* os.path.splitext gives, whether open() succeeds, and its physical lines.*)
(***************************************************************************)
EXT_JSONL == <<".", "j", "s", "o", "n", "l">>
EXT_JSON == <<".", "j", "s", "o", "n">>
EXT_TXT == <<".", "t", "x", "t">>

KEY_TEXT == <<"t", "e", "x", "t">>
KEY_PARSE_ERROR == <<"_", "p", "a", "r", "s", "e", "_", "e", "r", "r", "o", "r">>
KEY_META_INFO == <<"m", "e", "t", "a", "_", "i", "n", "f", "o">>
KEY_Q == <<"q">>

\* the lines the modelled files are made of
LINE_BLANK == <<" ">>
\* {"q":"MI"}
LINE_HIT == <<"{", "\"", "q", "\"", ":", "\"", "M", "I", "\"", "}">>
\* MI{ : not JSON, and the keyword stands in it
LINE_BAD == <<"M", "I", "{">>

\* json.loads on a stripped line of the modelled files: [ok, value]
json_loads(s) ==
    IF s = LINE_HIT
    THEN [ok |-> TRUE, value |-> <<"map", << <<KEY_Q, <<"str", <<"M", "I">>>>>> >>>>]
    ELSE [ok |-> FALSE, value |-> <<"null", <<>>>>]

\* f"invalid_json: {e}" for the malformed line of the modelled files, whose
\* first character already is no JSON value:
\* invalid_json: Expecting value: line 1 column 1 (char 0)
InvalidJsonMessage ==
    <<
      "i", "n", "v", "a", "l", "i", "d", "_", "j", "s", "o", "n", ":", " ", "E", "x", "p",
      "e", "c", "t", "i", "n", "g", " ", "v", "a", "l", "u", "e", ":", " ", "l", "i", "n",
      "e", " ", "1", " ", "c", "o", "l", "u", "m", "n", " ", "1", " ", "(", "c", "h", "a",
      "r", " ", "0", ")"
    >>

\* the record iter_jsonl_records yields for the physical line `line`
jsonl_record(line) ==
    LET s == Strip(line)
        r == json_loads(s)
    IN IF r.ok THEN r.value
       ELSE <<"map", << <<KEY_TEXT, <<"str", s>>>>,
                        <<KEY_PARSE_ERROR, <<"str", InvalidJsonMessage>>>> >>>>

\* whether iter_jsonl_records yields at a line (blank lines are passed over)
jsonl_yields(line) == Strip(line) # <<>>

txt_record(line) == <<"map", << <<KEY_TEXT, <<"str", Strip(line)>>>> >>>>
txt_yields(line, min_line_length) == Len(Strip(line)) >= min_line_length

\* a bug a reader could make: line numbers that count only the lines yielded
line_no_counting_records(file, kind, pos, min_line_length) ==
    LET yields(n) == IF kind = "jsonl" THEN jsonl_yields(file.lines[n])
                     ELSE txt_yields(file.lines[n], min_line_length)
    IN Cardinality({n \in 1..pos : yields(n)})

\* enumerate(f, start=1): the number of the physical line at position pos
enumerate_line_no(file, kind, pos, min_line_length) == pos

\* the `continue`s of the readers: the position of the next physical line
\* after `after` that yields a record, 0 at the end of the file
next_line(file, kind, after, min_line_length) ==
    LET yields(n) == IF kind = "jsonl" THEN jsonl_yields(file.lines[n])
                     ELSE txt_yields(file.lines[n], min_line_length)
        later == {n \in (after + 1)..Len(file.lines) : yields(n)}
    IN IF later = {} THEN 0 ELSE CHOOSE n \in later : \A m \in later : n <= m

\* json.load(f) of the whole file, with open(): [ok, value].  The document is
\* the one line that is not blank; more than one, none, or a line that is not
\* JSON raises JSONDecodeError, an unreadable file IOError.
load_json_file(file) ==
    LET notBlank(line) == Strip(line) # <<>>
        docs == SelectSeq(file.lines, notBlank)
    IN IF ~file.readable \/ Len(docs) # 1 THEN [ok |-> FALSE, value |-> <<"null", <<>>>>]
       ELSE json_loads(Strip(docs[1]))

(***************************************************************************)
(* iter_files                                                              *)
(***************************************************************************)
\* allowed_exts of main: the --extensions entries stripped and lowercased
allowed_exts(extensions) ==
    {LowerStr(Strip(extensions[i])) : i \in {j \in DOMAIN extensions : Strip(extensions[j]) # <<>>}}

\* the file iter_files yields after the file `after`, 0 when it is exhausted
iter_files(root, allowed, after) ==
    IF root.is_file THEN (IF after = 0 THEN 1 ELSE 0)
    ELSE LET later == {n \in (after + 1)..Len(root.files) :
                          LowerStr(root.files[n].ext) \in allowed}
         IN IF later = {} THEN 0 ELSE CHOOSE n \in later : \A m \in later : n <= m

(***************************************************************************)
(* The components a behaviour does not exercise stay idle                  *)
(***************************************************************************)
NoReader == [kind |-> "none", pos |-> 0, opened |-> FALSE]

FlattenIdle == fl_pc = "idle" /\ fl_value = <<"null", <<>>>> /\ fl_max = 0 /\ fl_out = <<>>
MatcherIdle ==
    /\ mt_pc = "idle" /\ kw_list = <<>> /\ mt_pattern = <<>> /\ mt_cleaned = <<>>
    /\ mt_text = <<>> /\ mt_max_hits = 0 /\ mt_hits = <<>>
DriverIdle ==
    /\ args = [extensions |-> <<>>, max_records |-> 0, fields |-> <<>>,
               max_flatten_items |-> 0, dry_run |-> TRUE]
    /\ fs = [is_file |-> FALSE, files |-> <<>>]
    /\ pc = "idle" /\ file_idx = 0 /\ reader = NoReader
    /\ total_records = 0 /\ matched_records = 0 /\ scanned_files = 0
    /\ out_f = "None" /\ output = <<>> /\ raised = "none" /\ exit_code = -1 /\ warnings = 0
    /\ run = 0 /\ prev = <<>> /\ scanned = <<>> /\ opened = <<>> /\ visited = <<>> /\ closes = 0

(***************************************************************************)
(* Bounded inputs of the two pure components                               *)
(***************************************************************************)
\* nodes (scalars and containers) of a record value handed to flatten_strings
MaxNodes == 4
\* largest max_items handed to flatten_strings
MaxItems == 3
\* longest text handed to detect_matches
MaxTextLen == 4
\* largest --max-hits-per-record
MaxHitCap == 2

ScalarValues ==
    { <<"null", <<>>>>, <<"str", <<" ", "a", " ">>>>, <<"str", <<" ">>>>,
      <<"num", 7>>, <<"bool", TRUE>> }
FieldKeys == { <<" ", "k">>, <<" ">> }

\* ValuesOfSize[n]: the values of exactly n nodes; ListsOfSize[n] and
\* ItemsOfSize[n]: the element lists and the key/value lists of n nodes in all
RECURSIVE ValuesOfSize(_)
RECURSIVE ListsOfSize(_)
RECURSIVE ItemsOfSize(_)
ListsOfSize(n) ==
    IF n = 0 THEN { <<>> }
    ELSE UNION { { <<v>> \o l : v \in ValuesOfSize(k), l \in ListsOfSize(n - k) } : k \in 1..n }
ItemsOfSize(n) ==
    IF n = 0 THEN { <<>> }
    ELSE UNION { UNION { { << <<key, v>> >> \o l :
                             v \in ValuesOfSize(k),
                             l \in { m \in ItemsOfSize(n - k) : \A i \in DOMAIN m : m[i][1] # key } }
                         : key \in FieldKeys }
                 : k \in 1..n }
ValuesOfSize(n) ==
    IF n = 1 THEN ScalarValues \cup { <<"seq", <<>>>>, <<"map", <<>>>> }
    ELSE { <<"seq", l>> : l \in ListsOfSize(n - 1) } \cup { <<"map", m>> : m \in ItemsOfSize(n - 1) }
RecordValues == UNION { ValuesOfSize(n) : n \in 1..MaxNodes }

TextAlphabet == {"M", "i", " ", "U5FC3"}
Texts == UNION { [1..n -> TextAlphabet] : n \in 0..MaxTextLen }

\* raw --keywords entries: an acronym, a short word to be stripped, a long
\* acronym, a long word, a phrase, a CJK keyword, a blank entry
KeywordPool ==
    { <<"M", "I">>, <<" ", "m", "i", " ">>, <<"M", "I", "M", "I">>, <<"m", "i", "m", "i">>,
      <<"M", " ", "i">>, <<"U5FC3">>, <<" ">> }
KeywordLists ==
    { <<>> } \cup { <<a>> : a \in KeywordPool } \cup { <<a, b>> : a \in KeywordPool, b \in KeywordPool }
HitCaps == -1 .. MaxHitCap

(***************************************************************************)
(* flatten_strings applied to every bounded value                          *)
(***************************************************************************)
InitFlatten ==
    /\ fl_pc = "call"
    /\ fl_value \in RecordValues
    /\ fl_max \in 0..MaxItems
    /\ fl_out = <<>>
    /\ MatcherIdle /\ DriverIdle

Flatten ==
    /\ fl_pc = "call"
    /\ fl_out' = flatten_strings(fl_value, fl_max)
    /\ fl_pc' = "return"
    /\ UNCHANGED <<fl_value, fl_max, mt_vars, in_vars, run_vars, hist_vars>>

SpecFlatten == InitFlatten /\ [][Flatten]_vars

(***************************************************************************)
(* build_matcher, then detect_matches on every bounded text                *)
(***************************************************************************)
InitMatcher ==
    /\ mt_pc = "start"
    /\ kw_list \in KeywordLists
    /\ mt_pattern = <<>> /\ mt_cleaned = <<>>
    /\ mt_text = <<>> /\ mt_max_hits = 0 /\ mt_hits = <<>>
    /\ FlattenIdle /\ DriverIdle

BuildMatcher ==
    /\ mt_pc = "start"
    /\ LET r == build_matcher(kw_list)
       IN mt_pattern' = r.pattern /\ mt_cleaned' = r.cleaned
    /\ mt_pc' = "built"
    /\ UNCHANGED <<kw_list, mt_text, mt_max_hits, mt_hits, fl_vars, in_vars, run_vars, hist_vars>>

DetectMatches ==
    /\ mt_pc = "built"
    /\ \E text \in Texts, max_hits \in HitCaps :
          /\ mt_text' = text
          /\ mt_max_hits' = max_hits
          /\ mt_hits' = detect_matches(mt_pattern, text, max_hits)
    /\ mt_pc' = "matched"
    /\ UNCHANGED <<kw_list, mt_pattern, mt_cleaned, fl_vars, in_vars, run_vars, hist_vars>>

SpecMatcher == InitMatcher /\ [][BuildMatcher \/ DetectMatches]_vars

(***************************************************************************)
(* Bounded inputs of main()                                                *)
(***************************************************************************)
\* files under --input
MaxFiles == 2
\* physical lines of a file
MaxLines == 2
\* largest --max-records
MaxRecordsArg == 1

\* --max-flatten-items and --max-hits-per-record as argparse defaults them
DefaultMaxFlattenItems == 200
DefaultMaxHitsPerRecord == 20
\* --min-line-length of the modelled runs
min_line_length == 4
\* --keywords MI
keywords_list == << <<"M", "I">> >>
\* main's exclude_fields without --include-meta-info
exclude_fields == <<KEY_META_INFO>>

Lines == {LINE_BLANK, LINE_HIT, LINE_BAD}
LineSeqs == UNION { [1..n -> Lines] : n \in 0..MaxLines }
FileExts == {EXT_JSONL, EXT_JSON, <<".", "T", "X", "T">>}
\* line files of every content; whole-document files of one line; files that
\* cannot be opened; a file of an extension no reader is for
Files ==
    [ext : {EXT_JSONL, <<".", "T", "X", "T">>}, readable : {TRUE}, lines : LineSeqs]
    \cup [ext : {EXT_JSON}, readable : {TRUE}, lines : [1..1 -> {LINE_HIT, LINE_BAD}]]
    \cup [ext : FileExts, readable : {FALSE}, lines : {<<>>}]
    \cup [ext : {<<".", "c", "s", "v">>}, readable : {TRUE}, lines : {<<>>}]
\* --input is one file, or a directory walked in this order; --output is a
\* path outside it (as data/raw and data/derived are), so that a run leaves
\* the tree as it found it
Roots ==
    [is_file : {TRUE}, files : [1..1 -> Files]]
    \cup [is_file : {FALSE}, files : UNION { [1..n -> Files] : n \in 0..MaxFiles }]
\* --extensions, split at the commas: the default, and " .TXT,.csv"
ExtensionArgs == { <<EXT_JSONL, EXT_JSON, EXT_TXT>>, <<<<" ", ".", "T", "X", "T">>, <<".", "c", "s", "v">>>> }
\* --fields, split: absent, or "q"
FieldArgs == { <<>>, <<KEY_Q>> }
DefaultExtensions == <<EXT_JSONL, EXT_JSON, EXT_TXT>>
\* every --max-records, --fields and --max-flatten-items with the default
\* --extensions, and every --extensions with the other defaults
Args ==
    [extensions : {DefaultExtensions}, max_records : 0..MaxRecordsArg, fields : FieldArgs,
     max_flatten_items : {1, DefaultMaxFlattenItems}, dry_run : {TRUE}]
    \cup [extensions : ExtensionArgs, max_records : {0}, fields : {<<>>},
          max_flatten_items : {DefaultMaxFlattenItems}, dry_run : {TRUE}]

(***************************************************************************)
(* main()                                                                  *)
(***************************************************************************)
Matcher == build_matcher(keywords_list)
include_fields == args.fields
CurrentFile == fs.files[file_idx]

\* the state main() starts the scan from (lines 329-333)
RunStart ==
    /\ pc = "start" /\ file_idx = 0 /\ reader = NoReader
    /\ total_records = 0 /\ matched_records = 0 /\ scanned_files = 0
    /\ out_f = "None" /\ output = <<>> /\ raised = "none" /\ exit_code = -1 /\ warnings = 0
    /\ scanned = <<>> /\ opened = <<>> /\ visited = <<>> /\ closes = 0

Init ==
    /\ args \in Args
    /\ fs \in Roots
    /\ RunStart
    /\ run = 1 /\ prev = <<>>
    /\ FlattenIdle /\ MatcherIdle

\* ---- lines 399-419: what ends the scan.  `exc` is "none" when the for loop
\* ended, else the exception; the handlers return 1, the finally clause closes
\* the handle, and only a completed scan prints the summary and returns 0.

\* a bug a reader could make: no close in the finally clause
finally_no_close(handle) == handle

\* `if out_f is not None: out_f.close()`; a close that raises IOError on its
\* flush has closed the handle all the same, and is answered with a warning
finally_close(handle) == IF handle = "open" THEN "closed" ELSE handle

EndScan(exc) ==
    /\ raised' = exc
    /\ exit_code' = IF exc = "none" THEN 0 ELSE 1
    /\ out_f' = finally_close(out_f)
    /\ closes' = IF out_f = "open" THEN closes + 1 ELSE closes
    /\ \E close_raises \in (IF out_f = "open" THEN BOOLEAN ELSE {FALSE}) :
          warnings' = IF close_raises THEN warnings + 1 ELSE warnings
    /\ pc' = "exit"

\* ---- lines 333-339: the output handle
SkipOutput ==
    /\ pc = "start" /\ args.dry_run
    /\ pc' = "files"
    /\ UNCHANGED <<file_idx, reader, total_records, matched_records, scanned_files,
                   out_f, output, raised, exit_code, warnings>>
    /\ UNCHANGED <<fl_vars, mt_vars, in_vars, hist_vars>>

OpenOutput ==
    /\ pc = "start" /\ ~args.dry_run
    /\ out_f' = "open"
    /\ pc' = "files"
    /\ UNCHANGED <<file_idx, reader, total_records, matched_records, scanned_files,
                   output, raised, exit_code, warnings>>
    /\ UNCHANGED <<fl_vars, mt_vars, in_vars, hist_vars>>

\* open() raises IOError: SystemExit with a message, before the scan
OpenOutputFails ==
    /\ pc = "start" /\ ~args.dry_run
    /\ raised' = "SystemExit"
    /\ exit_code' = 1
    /\ pc' = "exit"
    /\ UNCHANGED <<file_idx, reader, total_records, matched_records, scanned_files,
                   out_f, output, warnings>>
    /\ UNCHANGED <<fl_vars, mt_vars, in_vars, hist_vars>>

\* ---- lines 342-357: the next file and its reader
NextFileIdx == iter_files(fs, allowed_exts(args.extensions), file_idx)
NextFileExt == LowerStr(fs.files[NextFileIdx].ext)

\* iter_files is exhausted: the for loop ends
FilesExhausted ==
    /\ pc = "files" /\ NextFileIdx = 0
    /\ EndScan("none")
    /\ UNCHANGED <<file_idx, reader, total_records, matched_records, scanned_files, output>>
    /\ UNCHANGED <<fl_vars, mt_vars, in_vars, run, prev, scanned, opened, visited>>

\* .jsonl, .txt: a generator is made; the file is not opened yet
StartLineReader ==
    /\ pc = "files" /\ NextFileIdx # 0
    /\ NextFileExt \in {EXT_JSONL, EXT_TXT}
    /\ file_idx' = NextFileIdx
    /\ scanned_files' = scanned_files + 1
    /\ scanned' = Append(scanned, NextFileIdx)
    /\ reader' = [kind |-> IF NextFileExt = EXT_JSONL THEN "jsonl" ELSE "txt",
                  pos |-> 0, opened |-> FALSE]
    /\ pc' = "records"
    /\ UNCHANGED <<total_records, matched_records, out_f, output, raised, exit_code, warnings>>
    /\ UNCHANGED <<fl_vars, mt_vars, in_vars, run, prev, opened, visited, closes>>

\* .json: _load_json_file returns [(1, obj)]
LoadJsonFile ==
    /\ pc = "files" /\ NextFileIdx # 0
    /\ NextFileExt = EXT_JSON
    /\ load_json_file(fs.files[NextFileIdx]).ok
    /\ file_idx' = NextFileIdx
    /\ scanned_files' = scanned_files + 1
    /\ scanned' = Append(scanned, NextFileIdx)
    /\ opened' = Append(opened, <<NextFileIdx, Len(visited)>>)
    /\ reader' = [kind |-> "json", pos |-> 0, opened |-> TRUE]
    /\ pc' = "records"
    /\ UNCHANGED <<total_records, matched_records, out_f, output, raised, exit_code, warnings>>
    /\ UNCHANGED <<fl_vars, mt_vars, in_vars, run, prev, visited, closes>>

\* .json: _load_json_file raises IOError or ValueError: warning, continue
SkipJsonFile ==
    /\ pc = "files" /\ NextFileIdx # 0
    /\ NextFileExt = EXT_JSON
    /\ ~load_json_file(fs.files[NextFileIdx]).ok
    /\ file_idx' = NextFileIdx
    /\ scanned_files' = scanned_files + 1
    /\ scanned' = Append(scanned, NextFileIdx)
    /\ opened' = IF fs.files[NextFileIdx].readable
                 THEN Append(opened, <<NextFileIdx, Len(visited)>>) ELSE opened
    /\ warnings' = warnings + 1
    /\ UNCHANGED <<pc, reader, total_records, matched_records, out_f, output, raised, exit_code>>
    /\ UNCHANGED <<fl_vars, mt_vars, in_vars, run, prev, visited, closes>>

\* any other extension: continue
UnsupportedExt ==
    /\ pc = "files" /\ NextFileIdx # 0
    /\ NextFileExt \notin {EXT_JSONL, EXT_TXT, EXT_JSON}
    /\ file_idx' = NextFileIdx
    /\ scanned_files' = scanned_files + 1
    /\ scanned' = Append(scanned, NextFileIdx)
    /\ UNCHANGED <<pc, reader, total_records, matched_records, out_f, output, raised,
                   exit_code, warnings>>
    /\ UNCHANGED <<fl_vars, mt_vars, in_vars, run, prev, opened, visited, closes>>

\* ---- lines 359-398: one pass of `for line_no, record in record_iter`
\* the first next() of a generator runs its open()
ReaderCanRead == reader.kind = "json" \/ CurrentFile.readable
NextPos ==
    IF reader.kind = "json" THEN (IF reader.pos = 0 THEN 1 ELSE 0)
    ELSE next_line(CurrentFile, reader.kind, reader.pos, min_line_length)
NextLineNo ==
    IF reader.kind = "json" THEN 1
    ELSE enumerate_line_no(CurrentFile, reader.kind, NextPos, min_line_length)
NextRecord ==
    CASE reader.kind = "jsonl" -> jsonl_record(CurrentFile.lines[NextPos])
      [] reader.kind = "txt" -> txt_record(CurrentFile.lines[NextPos])
      [] reader.kind = "json" -> load_json_file(CurrentFile).value
OpenedAfterRead ==
    IF reader.opened THEN opened ELSE Append(opened, <<file_idx, Len(visited)>>)

\* `if args.max_records and total_records > args.max_records` (line 361)
over_ceiling(total, max_records) == max_records # 0 /\ total > max_records

\* a bug a reader could make: `>` where line 397 has `>=`
ceiling_reached_strict(total, max_records) == max_records # 0 /\ total > max_records

\* `if args.max_records and total_records >= args.max_records` (line 397)
ceiling_reached(total, max_records) == max_records # 0 /\ total >= max_records

NextText ==
    extract_text_from_record(NextRecord, args.max_flatten_items, include_fields, exclude_fields)
NextHits == detect_matches(Matcher.pattern, NextText, DefaultMaxHitsPerRecord)
\* out_record: the filtered record, or {"raw": it}, with _extract_meta
NextOutRecord ==
    LET filtered == filter_record_for_output(NextRecord, include_fields, exclude_fields)
    IN [record |-> IF IsDict(filtered) THEN filtered
                   ELSE <<"map", << <<<<"r", "a", "w">>, filtered>> >>>>,
        source_path |-> file_idx, source_line |-> NextLineNo, matched_keywords |-> NextHits]

\* open() in the generator raises OSError, in the for statement and so outside
\* the try of lines 346-357: `except Exception` of line 402 takes it
ReaderOpenFails ==
    /\ pc = "records" /\ ~ReaderCanRead
    /\ EndScan("Exception")
    /\ UNCHANGED <<file_idx, reader, total_records, matched_records, scanned_files, output>>
    /\ UNCHANGED <<fl_vars, mt_vars, in_vars, run, prev, scanned, opened, visited>>

\* the reader is exhausted; then the check of line 397
EndOfFile ==
    /\ pc = "records" /\ ReaderCanRead /\ NextPos = 0
    /\ opened' = OpenedAfterRead
    /\ reader' = NoReader
    /\ IF ceiling_reached(total_records, args.max_records)
       THEN EndScan("none")
       ELSE pc' = "files" /\ UNCHANGED <<out_f, raised, exit_code, warnings, closes>>
    /\ UNCHANGED <<file_idx, total_records, matched_records, scanned_files, output>>
    /\ UNCHANGED <<fl_vars, mt_vars, in_vars, run, prev, scanned, visited>>

\* the record past the ceiling is counted, then `break`; then the check of line 397
OverCeiling ==
    /\ pc = "records" /\ ReaderCanRead /\ NextPos # 0
    /\ over_ceiling(total_records + 1, args.max_records)
    /\ total_records' = total_records + 1
    /\ opened' = OpenedAfterRead
    /\ reader' = NoReader
    /\ IF ceiling_reached(total_records + 1, args.max_records)
       THEN EndScan("none")
       ELSE pc' = "files" /\ UNCHANGED <<out_f, raised, exit_code, warnings, closes>>
    /\ UNCHANGED <<file_idx, matched_records, scanned_files, output>>
    /\ UNCHANGED <<fl_vars, mt_vars, in_vars, run, prev, scanned, visited>>

\* no hit: continue
RecordNoMatch ==
    /\ pc = "records" /\ ReaderCanRead /\ NextPos # 0
    /\ ~over_ceiling(total_records + 1, args.max_records)
    /\ NextHits = <<>>
    /\ total_records' = total_records + 1
    /\ visited' = Append(visited, <<file_idx, NextLineNo>>)
    /\ opened' = OpenedAfterRead
    /\ reader' = [reader EXCEPT !.pos = NextPos, !.opened = TRUE]
    /\ UNCHANGED <<pc, file_idx, matched_records, scanned_files, out_f, output, raised,
                   exit_code, warnings>>
    /\ UNCHANGED <<fl_vars, mt_vars, in_vars, run, prev, scanned, closes>>

\* a bug a reader could make: a match counted only when it is written
RecordMatchCountedIfWritten ==
    /\ pc = "records" /\ ReaderCanRead /\ NextPos # 0
    /\ ~over_ceiling(total_records + 1, args.max_records)
    /\ NextHits # <<>>
    /\ total_records' = total_records + 1
    /\ matched_records' = IF out_f = "open" THEN matched_records + 1 ELSE matched_records
    /\ output' = IF out_f = "open" THEN Append(output, NextOutRecord) ELSE output
    /\ visited' = Append(visited, <<file_idx, NextLineNo>>)
    /\ opened' = OpenedAfterRead
    /\ reader' = [reader EXCEPT !.pos = NextPos, !.opened = TRUE]
    /\ UNCHANGED <<pc, file_idx, scanned_files, out_f, raised, exit_code, warnings>>
    /\ UNCHANGED <<fl_vars, mt_vars, in_vars, run, prev, scanned, closes>>

\* a hit: the record is counted and, with an output handle, written
RecordMatch ==
    /\ pc = "records" /\ ReaderCanRead /\ NextPos # 0
    /\ ~over_ceiling(total_records + 1, args.max_records)
    /\ NextHits # <<>>
    /\ total_records' = total_records + 1
    /\ matched_records' = matched_records + 1
    /\ output' = IF out_f = "open" THEN Append(output, NextOutRecord) ELSE output
    /\ visited' = Append(visited, <<file_idx, NextLineNo>>)
    /\ opened' = OpenedAfterRead
    /\ reader' = [reader EXCEPT !.pos = NextPos, !.opened = TRUE]
    /\ UNCHANGED <<pc, file_idx, scanned_files, out_f, raised, exit_code, warnings>>
    /\ UNCHANGED <<fl_vars, mt_vars, in_vars, run, prev, scanned, closes>>

\* a hit, and out_f.write raises IOError: SystemExit (line 395)
RecordWriteFails ==
    /\ pc = "records" /\ ReaderCanRead /\ NextPos # 0
    /\ ~over_ceiling(total_records + 1, args.max_records)
    /\ NextHits # <<>>
    /\ out_f = "open"
    /\ total_records' = total_records + 1
    /\ matched_records' = matched_records + 1
    /\ visited' = Append(visited, <<file_idx, NextLineNo>>)
    /\ opened' = OpenedAfterRead
    /\ EndScan("SystemExit")
    /\ UNCHANGED <<file_idx, reader, scanned_files, output>>
    /\ UNCHANGED <<fl_vars, mt_vars, in_vars, run, prev, scanned>>

\* Ctrl-C during the scan: `except KeyboardInterrupt` (line 399)
Interrupt ==
    /\ pc \in {"files", "records"}
    /\ EndScan("KeyboardInterrupt")
    /\ UNCHANGED <<file_idx, reader, total_records, matched_records, scanned_files, output>>
    /\ UNCHANGED <<fl_vars, mt_vars, in_vars, run, prev, scanned, opened, visited>>

\* ---- lines 412-423: the script is run again on the same input, without
\* --dry-run; the summary the first run printed (none unless it returned 0)
\* is kept for comparison
Rerun ==
    /\ pc = "exit" /\ run = 1
    /\ prev' = IF exit_code = 0
               THEN <<[scanned_files |-> scanned_files, total_records |-> total_records,
                       matched_records |-> matched_records,
                       scanned |-> scanned, visited |-> visited, out_f |-> out_f]>>
               ELSE <<>>
    /\ run' = 2
    /\ args' = [args EXCEPT !.dry_run = FALSE]
    /\ pc' = "start" /\ file_idx' = 0 /\ reader' = NoReader
    /\ total_records' = 0 /\ matched_records' = 0 /\ scanned_files' = 0
    /\ out_f' = "None" /\ output' = <<>> /\ raised' = "none" /\ exit_code' = -1
    /\ warnings' = 0
    /\ scanned' = <<>> /\ opened' = <<>> /\ visited' = <<>> /\ closes' = 0
    /\ UNCHANGED <<fs, fl_vars, mt_vars>>

Next ==
    \/ SkipOutput \/ OpenOutput \/ OpenOutputFails
    \/ FilesExhausted \/ StartLineReader \/ LoadJsonFile \/ SkipJsonFile \/ UnsupportedExt
    \/ ReaderOpenFails \/ EndOfFile \/ OverCeiling
    \/ RecordNoMatch \/ RecordMatch \/ RecordWriteFails
    \/ Interrupt
    \/ Rerun

Spec == Init /\ [][Next]_vars

(***************************************************************************)
(* Claims about main()                                                     *)
(***************************************************************************)
\* C1: a file that cannot be read is skipped whatever its format, and the run
\* goes on to its normal end: unless it was interrupted or the output failed
\* (both leave by SystemExit or KeyboardInterrupt), it exits with status 0.
C1_ReadErrorsNeverAbort ==
    (pc = "exit" /\ raised \notin {"KeyboardInterrupt", "SystemExit"}) => exit_code = 0

\* C2: with --max-records N > 0 at most N records are flattened, matched or
\* written, and no file is opened for reading once N records were processed.
C2_CeilingBoundsProcessing ==
    args.max_records > 0 =>
        /\ Len(visited) <= args.max_records
        /\ Len(output) <= args.max_records
        /\ \A i \in DOMAIN opened : opened[i][2] < args.max_records

\* N = 1: one record processed, the second of the same file counted and left
\* alone, the second file never scanned
C2_Witness ==
    /\ run = 2 /\ pc = "exit" /\ exit_code = 0
    /\ args.max_records = 1
    /\ Len(visited) = 1 /\ total_records = 2
    /\ Len(fs.files) = 2 /\ scanned = <<1>>

\* C3: with --max-records N > 0 the total of records scanned that a completed
\* run reports is at most N.
C3_ReportedTotalWithinCeiling ==
    (pc = "exit" /\ exit_code = 0 /\ args.max_records > 0) => total_records <= args.max_records

\* C4: however the scan ends, the process does not end with the output handle
\* open; the handle is closed once, and a dry run has none.
C4_HandleClosedOnEveryExit ==
    /\ pc = "exit" => out_f # "open"
    /\ closes <= 1
    /\ out_f = "closed" <=> closes = 1
    /\ args.dry_run => out_f = "None"

\* a write fails after an earlier line was written; the handle is closed
C4_Witness ==
    /\ pc = "exit" /\ raised = "SystemExit" /\ exit_code = 1
    /\ out_f = "closed" /\ closes = 1
    /\ Len(output) = 1 /\ matched_records = 2

\* <<path, line>> pairs in scan order
ScanOrderLess(a, b) ==
    a.source_path < b.source_path
    \/ (a.source_path = b.source_path /\ a.source_line < b.source_line)

\* C5: a dry run never has an output handle or an output line; a normal run
\* writes one line per matched record, in scan order; and a normal run that
\* completes after a completed dry run on the same input went through the same
\* files and records and reports the same three counts.
C5_DryRunSameCounts ==
    /\ args.dry_run => (out_f = "None" /\ output = <<>>)
    /\ (~args.dry_run /\ raised = "none" /\ pc # "start") =>
          /\ Len(output) = matched_records
          /\ \A i, j \in DOMAIN output : i < j => ScanOrderLess(output[i], output[j])
          /\ \A i \in DOMAIN output :
                <<output[i].source_path, output[i].source_line>> \in Range(visited)
    /\ (run = 2 /\ pc = "exit" /\ exit_code = 0 /\ prev # <<>>) =>
          /\ prev[1].out_f = "None"
          /\ prev[1].scanned_files = scanned_files
          /\ prev[1].total_records = total_records
          /\ prev[1].matched_records = matched_records
          /\ prev[1].scanned = scanned
          /\ prev[1].visited = visited

\* both runs completed; some records matched and some did not
C5_Witness ==
    /\ run = 2 /\ pc = "exit" /\ exit_code = 0 /\ prev # <<>>
    /\ matched_records = 2 /\ total_records = 3 /\ scanned_files = 2
    /\ Len(output) = 2 /\ out_f = "closed"

\* C6: every file counted as scanned, and every file opened for reading, has
\* an extension that is, lowercased, one of --extensions.
C6_ScannedFilesHaveAllowedExtension ==
    /\ \A i \in DOMAIN scanned :
          LowerStr(fs.files[scanned[i]].ext) \in allowed_exts(args.extensions)
    /\ \A i \in DOMAIN opened :
          LowerStr(fs.files[opened[i][1]].ext) \in allowed_exts(args.extensions)

\* ---- C9
IsJsonlFile(f) == LowerStr(fs.files[f].ext) = EXT_JSONL
NotBlankLine(f, n) == Strip(fs.files[f].lines[n]) # <<>>
MalformedLine(f, n) == NotBlankLine(f, n) /\ ~json_loads(Strip(fs.files[f].lines[n])).ok
KeywordInRawLine(f, n) ==
    detect_matches(Matcher.pattern, Strip(fs.files[f].lines[n]), 1) # <<>>
Emitted(f, n) ==
    \E i \in DOMAIN output :
        /\ output[i].source_path = f /\ output[i].source_line = n
        /\ HasField(output[i].record, KEY_TEXT)
        /\ FieldValue(output[i].record, KEY_TEXT) = <<"str", Strip(fs.files[f].lines[n])>>

\* every record of a .jsonl file is yielded at its physical line number, a
\* line that is not blank, after every earlier such line of the file, and is
\* counted in the total; and a completed run without a ceiling has processed
\* every such line of the file
JsonlLinesAllYielded ==
    /\ total_records >= Len(visited)
    /\ \A i \in DOMAIN visited :
          LET f == visited[i][1]
              n == visited[i][2]
          IN IsJsonlFile(f) =>
                /\ n \in 1..Len(fs.files[f].lines)
                /\ NotBlankLine(f, n)
                /\ \A m \in 1..(n - 1) :
                      NotBlankLine(f, m) => \E j \in 1..(i - 1) : visited[j] = <<f, m>>
    /\ (pc = "exit" /\ exit_code = 0 /\ args.max_records = 0) =>
          \A i \in DOMAIN scanned :
              IsJsonlFile(scanned[i]) =>
                  \A n \in DOMAIN fs.files[scanned[i]].lines :
                      NotBlankLine(scanned[i], n) => <<scanned[i], n>> \in Range(visited)

\* the malformed lines processed by a normal run whose writes succeeded
MalformedProcessed ==
    IF args.dry_run \/ raised = "SystemExit" THEN {}
    ELSE {i \in DOMAIN visited :
             IsJsonlFile(visited[i][1]) /\ MalformedLine(visited[i][1], visited[i][2])}

TextFieldIsMatched ==
    /\ (args.fields = <<>> \/ \E k \in DOMAIN args.fields : args.fields[k] = KEY_TEXT)
    /\ args.max_flatten_items >= 2

RECURSIVE AllFragments(_)
RECURSIVE AllFragmentsOfList(_)
RECURSIVE AllFragmentsOfItems(_)
AllFragmentsOfList(l) ==
    IF l = <<>> THEN <<>> ELSE AllFragments(Head(l)) \o AllFragmentsOfList(Tail(l))
AllFragmentsOfItems(m) ==
    IF m = <<>> THEN <<>>
    ELSE (IF Strip(Head(m)[1]) = <<>> THEN <<>> ELSE <<Strip(Head(m)[1])>>)
         \o AllFragments(Head(m)[2]) \o AllFragmentsOfItems(Tail(m))
AllFragments(v) ==
    CASE v[1] = "null" -> <<>>
      [] v[1] = "str" -> (IF Strip(v[2]) = <<>> THEN <<>> ELSE <<Strip(v[2])>>)
      [] v[1] = "num" -> <<NatStr(v[2])>>
      [] v[1] = "bool" -> <<IF v[2] THEN <<"T", "r", "u", "e">> ELSE <<"F", "a", "l", "s", "e">>>>
      [] v[1] = "seq" -> AllFragmentsOfList(v[2])
      [] v[1] = "map" -> AllFragmentsOfItems(v[2])

IsTrimmedNonEmpty(f) == f # <<>> /\ ~IsSpace(f[1]) /\ ~IsSpace(f[Len(f)])

\* C8: flatten_strings(value, M), M >= 0, returns exactly the first min(M, K)
\* fragments of the unbounded depth-first flattening (K its length): exactly M
\* fragments when K > M, never more than M, each a non-empty trimmed string.
C8_FlattenIsPrefixOfUnbounded ==
    fl_pc = "return" =>
        LET all == AllFragments(fl_value)
            K == Len(all)
        IN /\ fl_out = SubSeq(all, 1, IF fl_max < K THEN fl_max ELSE K)
           /\ Len(fl_out) <= fl_max
           /\ (K > fl_max => Len(fl_out) = fl_max)
           /\ \A i \in DOMAIN fl_out : IsTrimmedNonEmpty(fl_out[i])

\* a nested mapping with more fragments than the maximum, cut inside the nesting
C8_Witness ==
    /\ fl_pc = "return"
    /\ fl_value = <<"map", << << <<" ", "k">>, <<"map", << << <<" ", "k">>, <<"str", <<" ", "a", " ">>>> >> >> >> >> >> >>
    /\ fl_max = 2
    /\ fl_out = << <<"k">>, <<"k">> >>

(***************************************************************************)
(* Claims about build_matcher and detect_matches                           *)
(***************************************************************************)
\* alphanumeric-only, and at most 3 characters or fully uppercase with a letter
IsAcronymKeyword(kw) ==
    /\ kw # <<>>
    /\ \A i \in DOMAIN kw : IsAsciiAlnum(kw[i])
    /\ \/ Len(kw) <= 3
       \/ (\A i \in DOMAIN kw : IsUpper(kw[i]) \/ IsDigit(kw[i])) /\ (\E i \in DOMAIN kw : IsUpper(kw[i]))

\* kw occurs in text at position i, compared case-insensitively, with a
\* non-word character or the text's start before it and a non-word character or
\* the text's end after it
StandaloneAt(kw, text, i) ==
    /\ i >= 1 /\ i + Len(kw) - 1 <= Len(text)
    /\ \A j \in DOMAIN kw : LowerChar(text[i + j - 1]) = LowerChar(kw[j])
    /\ (i = 1 \/ ~IsWord(text[i - 1]))
    /\ (i + Len(kw) > Len(text) \/ ~IsWord(text[i + Len(kw)]))

\* C10: the matcher of one acronym-class keyword matches a text exactly when the
\* keyword stands in it as a token of its own, case-insensitively; every hit is
\* the keyword up to case; and no matcher, of any keyword list, matches the
\* empty string.
C10_AcronymMatchesStandaloneOnly ==
    mt_pc = "matched" =>
        /\ \A i \in DOMAIN mt_hits : mt_hits[i] # <<>>
        /\ (mt_text = <<>> => mt_hits = <<>>)
        /\ (Len(mt_cleaned) = 1 /\ IsAcronymKeyword(mt_cleaned[1])) =>
              /\ (mt_hits # <<>>) <=> (\E i \in 1..Len(mt_text) : StandaloneAt(mt_cleaned[1], mt_text, i))
              /\ \A i \in DOMAIN mt_hits : LowerStr(mt_hits[i]) = LowerStr(mt_cleaned[1])

\* "MI" found as "Mi" between two blanks, recorded in the text's casing
C10_Witness ==
    /\ mt_pc = "matched"
    /\ mt_cleaned = << <<"M", "I">> >>
    /\ mt_text = <<" ", "M", "i", " ">>
    /\ mt_hits = << <<"M", "i">> >>

\* C7: for every value of --max-hits-per-record from 0 up, the hits recorded for
\* a text are at most that many.
C7_HitsWithinCap ==
    (mt_pc = "matched" /\ mt_max_hits >= 0) => Len(mt_hits) <= mt_max_hits

====
